---- MODULE Spec2Model ----
(***************************************************************************)
(* The 3-tier conflict-of-interest check engine of the onboarding          *)
(* platform (backend/utils/conflict_check.py) with the handlers that feed  *)
(* and call it: the conflict-index import script, the admin status route,  *)
(* the ad-hoc check route and the identity normalisers.                    *)
(*                                                                         *)
(* Texts (names, identifiers, nationalities) are sequences of one-letter   *)
(* strings, so that lower(), upper(), strip(), the identifier cleaning and *)
(* difflib's similarity ratio are computed and not assumed.                *)
(***************************************************************************)
EXTENDS Integers, Sequences, FiniteSets, TLC

\* ───────────────────────── bounds of the model ─────────────────────────
MaxIndex      == 2   \* rows of conflict_index
MaxResults    == 1   \* rows of conflict_results, where the engine may fail
MaxTierChecks == 2   \* rows of conflict_results, where the tiers are studied
MaxReviewed   == 2   \* rows of conflict_results, where they are decided
MaxDecisions  == 2   \* decisions the admins write
MaxTasks      == 2   \* run_conflict_check tasks queued, running or done
MaxDegraded   == 2   \* rows of conflict_results, where the provider may fail
MaxPassports  == 2   \* passport rows of a client
MaxViewed     == 3   \* rows of conflict_results that the views read

\* ───────────────────────── program constants ──────────────────────────
REVIEW_THRESHOLD == 50
FuzzyFloor       == 85      \* ratio < 0.85 is discarded          (percent)
FuzzyHigh        == 92      \* ratio >= 0.92                      (percent)
SoftFloor        == 850     \* sim < 0.85 stops the scan          (per mille)
ExactLimit       == 5       \* LIMIT 5 of the passport overlap query
NeighbourLimit   == 10      \* LIMIT 10 of the vector query
MaxRetries       == 2       \* max_retries of the run_conflict_check task

\* ───────────────────────── text helpers ───────────────────────────────
Lower(ch) ==
    CASE ch = "M" -> "m" [] ch = "O" -> "o" [] ch = "U" -> "u"
      [] ch = "A" -> "a" [] ch = "E" -> "e" [] ch = "I" -> "i"
      [] ch = "P" -> "p" [] ch = "X" -> "x" [] OTHER -> ch

Upper(ch) ==
    CASE ch = "m" -> "M" [] ch = "o" -> "O" [] ch = "u" -> "U"
      [] ch = "a" -> "A" [] ch = "e" -> "E" [] ch = "i" -> "I"
      [] ch = "p" -> "P" [] ch = "x" -> "X" [] OTHER -> ch

LowerStr(s) == [i \in 1..Len(s) |-> Lower(s[i])]
UpperStr(s) == [i \in 1..Len(s) |-> Upper(s[i])]

IsSpace(ch) == ch = " "

RECURSIVE LStrip(_)
LStrip(s) == IF s # <<>> /\ IsSpace(Head(s)) THEN LStrip(Tail(s)) ELSE s

RECURSIVE RStrip(_)
RStrip(s) ==
    IF s # <<>> /\ IsSpace(s[Len(s)]) THEN RStrip(SubSeq(s, 1, Len(s) - 1)) ELSE s

\* str.strip()
Strip(s) == RStrip(LStrip(s))

\* ───────────────────────── difflib.SequenceMatcher ────────────────────
\* length of the common run of a and b that starts at a[i], b[j] and stays
\* below ahi, bhi (positions are 1-based, the upper ends exclusive)
RECURSIVE RunLen(_, _, _, _, _, _)
RunLen(a, i, ahi, b, j, bhi) ==
    IF i < ahi /\ j < bhi /\ a[i] = b[j]
    THEN 1 + RunLen(a, i + 1, ahi, b, j + 1, bhi)
    ELSE 0

\* the longest of the blocks <<i, j, size>>, earliest in a, then earliest in b
Longest(blocks, alo, blo) ==
    IF blocks = {} THEN <<alo, blo, 0>>
    ELSE CHOOSE p \in blocks :
            \A q \in blocks :
                \/ p[3] > q[3]
                \/ /\ p[3] = q[3]
                   /\ \/ p[1] < q[1]
                      \/ p[1] = q[1] /\ p[2] <= q[2]

\* find_longest_match
LongestMatch(a, alo, ahi, b, blo, bhi) ==
    Longest({blk \in {<<i, j, RunLen(a, i, ahi, b, j, bhi)>> :
                        i \in alo..(ahi - 1), j \in blo..(bhi - 1)} : blk[3] > 0},
            alo, blo)

\* get_matching_blocks: total size of the blocks found by recursing to the
\* left and to the right of the longest match m
RECURSIVE MatchedChars(_, _, _, _, _, _)
AroundBlock(a, alo, ahi, b, blo, bhi, m) ==
    IF m[3] = 0 THEN 0
    ELSE m[3]
         + MatchedChars(a, alo, m[1], b, blo, m[2])
         + MatchedChars(a, m[1] + m[3], ahi, b, m[2] + m[3], bhi)

MatchedChars(a, alo, ahi, b, blo, bhi) ==
    IF alo >= ahi \/ blo >= bhi THEN 0
    ELSE AroundBlock(a, alo, ahi, b, blo, bhi,
                     LongestMatch(a, alo, ahi, b, blo, bhi))

\* SequenceMatcher(None, a, b).ratio() as the fraction <<2*M, T>>
Ratio(a, b) ==
    IF Len(a) + Len(b) = 0 THEN <<1, 1>>
    ELSE <<2 * MatchedChars(a, 1, Len(a) + 1, b, 1, Len(b) + 1), Len(a) + Len(b)>>

\* ratio >= pct / 100
RatioAtLeast(r, pct) == r[1] * 100 >= pct * r[2]

\* ───────────────────────── conflict_schema.py ─────────────────────────
\* re.sub(r"\s+", " ", name): every run of whitespace becomes one space
RECURSIVE CollapseSpaces(_)
CollapseSpaces(s) ==
    IF s = <<>> THEN <<>>
    ELSE IF IsSpace(Head(s))
         THEN <<" ">> \o CollapseSpaces(LStrip(s))
         ELSE <<Head(s)>> \o CollapseSpaces(Tail(s))

\* _clean_name
CleanName(name) == IF name = <<>> THEN <<>> ELSE Strip(CollapseSpaces(name))

\* re.sub(r"[\s\-]", "", id_str)
RECURSIVE DropSpacesAndDashes(_)
DropSpacesAndDashes(s) ==
    IF s = <<>> THEN <<>>
    ELSE IF IsSpace(Head(s)) \/ Head(s) = "-"
         THEN DropSpacesAndDashes(Tail(s))
         ELSE <<Head(s)>> \o DropSpacesAndDashes(Tail(s))

\* _clean_id
CleanId(id_str) == IF id_str = <<>> THEN <<>> ELSE UpperStr(DropSpacesAndDashes(id_str))

\* A payload is [full_name, passport_numbers, emirates_id, nationality]; the
\* two lists are held as sets (the code tests them for overlap and for
\* emptiness, and joins the passport numbers into an array literal whose
\* elements do not depend on their order) and an absent text (None) is the
\* empty text, which Python's truth tests treat alike.
NoText == <<>>

\* normalise_manual_input
NormaliseManualInput(form_data) ==
    [ full_name        |-> CleanName(form_data.full_name),
      passport_numbers |-> {CleanId(p) : p \in {q \in form_data.passport_numbers : q # <<>>}},
      emirates_id      |-> IF form_data.emirates_id # <<>>
                           THEN CleanId(form_data.emirates_id) ELSE NoText,
      nationality      |-> {Strip(n) : n \in {m \in form_data.nationality : m # <<>>}} ]

\* normalise_db_record
NormaliseDbRecord(json_record) ==
    [ full_name        |-> CleanName(json_record.full_name),
      passport_numbers |-> {CleanId(p) : p \in {q \in json_record.passport_numbers : q # <<>>}},
      emirates_id      |-> IF json_record.emirates_id # <<>>
                           THEN CleanId(json_record.emirates_id) ELSE NoText,
      nationality      |-> {Strip(n) : n \in {m \in json_record.nationality : m # <<>>}} ]

\* validate_payload: the list of problems (the two list checks cannot fail
\* for a payload built by a normaliser)
ValidatePayload(payload) ==
    IF payload.full_name = <<>> THEN <<"full_name is required.">> ELSE <<>>

\* ───────────────────────── the data of the model ──────────────────────
NameMohamed    == <<"M","o","h","a","m","e","d">>
NameMohammedSp == <<"m","o","h","a","m","m","e","d"," ">>
NameMohamad    == <<"M","o","h","a","m","a","d">>
NameOmar       == <<"O","m","a","r">>
NameAmar       == <<"A", "m", "a", "r">>
NameUmar       == <<"U","m","a","r">>

PassportP1     == <<"P","1">>
PassportP2     == <<"P","2">>
RawPassportP2  == <<"p","-","2">>
\* two numbers typed into one field, as typed and as _clean_id leaves them
RawPassportPair == <<"p", "1", ",", " ", "p", "2">>
PassportPair    == <<"P", "1", ",", "P", "2">>
EidOcr         == <<"7","-","1">>      \* the 784-xxxx-xxxxxxx-x form OCR stores
EidPlain       == <<"7","1">>

NatUAE         == <<"U","A","E">>
NatUaeLower    == <<"u","a","e">>
NatIN          == <<"I","N">>

FirmA == "firmA"
FirmB == "firmB"
Firms == {FirmA, FirmB}

ClientIds   == {"c1", "c2", "c3"}
GhostClient == "c9"                    \* an id with no row in clients

ClientStatus ==
    {"pending", "id_uploaded", "conflict_check", "manual_review",
     "context_collection", "review", "approved", "rejected"}

MatchType == {"exact", "strong", "soft", "none"}

\* ───────────────────────── external collaborators ────────────────────
\* generate_embedding(text): the provider embeds text.strip(); the vector is
\* identified with the text it was computed from
NullVec == <<"NULL">>
Embed(text) == Strip(text)

\* 1 - (name_embedding <=> vec): cosine similarity, per mille
CosSim(u, v) ==
    IF u = v THEN 1000
    ELSE LET pair == {u, v}
         IN  CASE pair = {NameUmar, NameOmar}                 -> 975
               [] pair = {NameOmar, NameMohamed}              -> 940
               [] pair = {NameUmar, NameMohamed}              -> 880
               [] pair = {NameMohamad, NameOmar}              -> 860
               [] pair = {NameMohamad, NameMohamed}           -> 990
               [] pair = {Strip(NameMohammedSp), NameMohamed} -> 980
               [] pair = {NameAmar, NameOmar}                 -> 840
               [] OTHER                                       -> 800

\* The names that occur in the model, as _tier2_strong compares them, and
\* the ratio of every pair of them, computed once.
KnownNames ==
    {NameMohamed, NameMohammedSp, NameMohamad, NameOmar, NameUmar, NameAmar,
     <<>>, <<" ">>}
NameKeys == {Strip(LowerStr(n)) : n \in KnownNames}
RatioTable == [a \in NameKeys, b \in NameKeys |-> Ratio(a, b)]

\* SequenceMatcher(None, a, b).ratio()
SequenceMatcherRatio(a, b) ==
    IF a \in NameKeys /\ b \in NameKeys THEN RatioTable[a, b] ELSE Ratio(a, b)

\* ───────────────────────── conflict_check.py: the tiers ───────────────
\* A tier returns None or a dict; None is the record with hit = FALSE.
NoRow == 0
NoMatch ==
    [hit |-> FALSE, match_type |-> "none", confidence_score |-> 0,
     matched_record_id |-> NoRow]
Match(type, score, rid) ==
    [hit |-> TRUE, match_type |-> type, confidence_score |-> score,
     matched_record_id |-> rid]

\* LIMIT n
Limit(rows, n) == SubSeq(rows, 1, IF Len(rows) < n THEN Len(rows) ELSE n)

\* the elements of s between its commas
RECURSIVE SplitOnComma(_)
SplitOnComma(s) ==
    IF \E i \in 1..Len(s) : s[i] = ","
    THEN LET k == CHOOSE i \in 1..Len(s) :
                    s[i] = "," /\ \A j \in 1..(i - 1) : s[j] # ","
         IN  {SubSeq(s, 1, k - 1)} \cup SplitOnComma(SubSeq(s, k + 1, Len(s)))
    ELSE {s}

\* CAST(:arr AS varchar[]) for arr_literal = "{" + ",".join(passport_numbers)
\* + "}": the elements PostgreSQL reads from the literal, which it splits at
\* every comma
VarcharArray(passport_numbers) ==
    UNION {SplitOnComma(p) : p \in passport_numbers}

\* an exact tier whose queries leave out the firm_id condition
Tier1ExactAnyFirm(payload, firm_id, tbl) ==
    LET Overlaps(r) == r.passport_numbers
                            \cap VarcharArray(payload.passport_numbers) # {}
        SameEid(r)  == r.emirates_id = payload.emirates_id
        rows    == Limit(SelectSeq(tbl, Overlaps), ExactLimit)
        eidRows == Limit(SelectSeq(tbl, SameEid), 1)
    IN  IF payload.passport_numbers = {} /\ payload.emirates_id = NoText
        THEN NoMatch
        ELSE IF payload.passport_numbers # {} /\ rows # <<>>
             THEN Match("exact", 95, rows[1].record_id)
        ELSE IF payload.emirates_id # NoText /\ eidRows # <<>>
             THEN Match("exact", 90, eidRows[1].record_id)
        ELSE NoMatch

\* _tier1_exact(payload, firm_id), tbl being conflict_index in the order the
\* store scans it
Tier1Exact(payload, firm_id, tbl) ==
    LET passport_numbers == payload.passport_numbers
        emirates_id      == payload.emirates_id
        Overlaps(r) == r.firm_id = firm_id
                       /\ r.passport_numbers \cap VarcharArray(passport_numbers) # {}
        SameEid(r)  == r.firm_id = firm_id /\ r.emirates_id = emirates_id
        rows    == Limit(SelectSeq(tbl, Overlaps), ExactLimit)
        eidRows == Limit(SelectSeq(tbl, SameEid), 1)
    IN  IF passport_numbers = {} /\ emirates_id = NoText THEN NoMatch
        ELSE IF passport_numbers # {} /\ rows # <<>>
             THEN Match("exact", 95, rows[1].record_id)
        ELSE IF emirates_id # NoText /\ eidRows # <<>>
             THEN Match("exact", 90, eidRows[1].record_id)
        ELSE NoMatch

\* the score table of the fuzzy tier, for a ratio that reached the floor
StrongScore(ratio, nat_overlap) ==
    IF RatioAtLeast(ratio, FuzzyHigh) /\ nat_overlap THEN 82
    ELSE IF RatioAtLeast(ratio, FuzzyFloor) /\ nat_overlap THEN 72
    ELSE IF RatioAtLeast(ratio, FuzzyHigh) THEN 65
    ELSE 60

\* lines 229-244 for a row with a name: its score, or 0 when its ratio is
\* below the floor and the loop skips it
ScoreOfRatio(ratio, nat_overlap) ==
    IF ~RatioAtLeast(ratio, FuzzyFloor) THEN 0 ELSE StrongScore(ratio, nat_overlap)

\* lines 224-244 for one row: its score, or 0 when the loop skips it
RowScore(query_name, query_nats, row) ==
    IF Strip(LowerStr(row.full_name)) = <<>> THEN 0
    ELSE ScoreOfRatio(
            SequenceMatcherRatio(query_name, Strip(LowerStr(row.full_name))),
            query_nats \cap {UpperStr(n) : n \in row.nationality} # {})

\* lines 246-248: best is <<best_score, best_record>>
KeepBest(score, record_id, best) ==
    IF score > best[1] THEN <<score, record_id>> ELSE best

\* a loop that keeps the first row above the floor instead of the best one
KeepFirst(score, record_id, rest) ==
    IF score > 0 THEN <<score, record_id>> ELSE rest

RECURSIVE StrongLoopFirst(_, _, _, _, _)
StrongLoopFirst(rows, k, query_name, query_nats, best) ==
    IF k > Len(rows) THEN best
    ELSE KeepFirst(RowScore(query_name, query_nats, rows[k]), rows[k].record_id,
                   StrongLoopFirst(rows, k + 1, query_name, query_nats, best))

\* the for loop of _tier2_strong over rows[k..], carrying best_score and
\* best_record as the pair best
RECURSIVE StrongLoop(_, _, _, _, _)
StrongLoop(rows, k, query_name, query_nats, best) ==
    IF k > Len(rows) THEN best
    ELSE StrongLoop(rows, k + 1, query_name, query_nats,
                    KeepBest(RowScore(query_name, query_nats, rows[k]),
                             rows[k].record_id, best))

\* lines 250-257: what _tier2_strong returns for the best of the loop
StrongResult(best) ==
    IF best[2] # NoRow THEN Match("strong", best[1], best[2]) ELSE NoMatch

\* _tier2_strong(payload, firm_id)
Tier2Strong(payload, firm_id, tbl) ==
    LET OfFirm(r) == r.firm_id = firm_id
    IN  IF Strip(LowerStr(payload.full_name)) = <<>> THEN NoMatch
        ELSE StrongResult(
                StrongLoop(SelectSeq(tbl, OfFirm), 1,
                           Strip(LowerStr(payload.full_name)),
                           {UpperStr(n) : n \in payload.nationality},
                           <<0, NoRow>>))

\* a vector query without its ORDER BY
ScanOrder(rows, vec) == rows

\* ORDER BY name_embedding <=> vec: nearest first, rows at the same distance
\* in scan order
RECURSIVE OrderBySimilarity(_, _)
OrderBySimilarity(rows, vec) ==
    IF rows = <<>> THEN <<>>
    ELSE LET k == CHOOSE i \in 1..Len(rows) :
                    \A j \in 1..Len(rows) :
                        \/ CosSim(rows[i].name_embedding, vec)
                             > CosSim(rows[j].name_embedding, vec)
                        \/ /\ CosSim(rows[i].name_embedding, vec)
                                = CosSim(rows[j].name_embedding, vec)
                           /\ i <= j
             rest == [j \in 1..(Len(rows) - 1) |-> IF j < k THEN rows[j] ELSE rows[j + 1]]
         IN  <<rows[k]>> \o OrderBySimilarity(rest, vec)

\* the rows the vector query of _tier3_soft returns
Neighbours(embedding, firm_id, tbl) ==
    LET HasVec(r) == r.firm_id = firm_id /\ r.name_embedding # NullVec
    IN  Limit(OrderBySimilarity(SelectSeq(tbl, HasVec), embedding), NeighbourLimit)

\* a score table of the semantic tier that reaches into the fuzzy band
SoftScoreHigh(sim) ==
    IF sim >= 970 THEN 55
    ELSE IF sim >= 930 THEN 62
    ELSE IF sim >= 870 THEN 30
    ELSE 22

SoftScore(sim) ==
    IF sim >= 970 THEN 55
    ELSE IF sim >= 930 THEN 45
    ELSE IF sim >= 870 THEN 30
    ELSE 22

\* a loop that goes on down the list and keeps the last row above the floor
SoftLoopLast(rows, embedding) ==
    LET above == {i \in 1..Len(rows) :
                    CosSim(rows[i].name_embedding, embedding) >= SoftFloor}
        k     == CHOOSE i \in above : \A j \in above : j <= i
    IN  IF above = {} THEN NoMatch
        ELSE Match("soft", SoftScore(CosSim(rows[k].name_embedding, embedding)),
                   rows[k].record_id)

\* the for loop of _tier3_soft: its first iteration either breaks or returns
SoftLoop(rows, embedding) ==
    IF rows = <<>> THEN NoMatch
    ELSE LET sim == CosSim(rows[1].name_embedding, embedding)
         IN  IF sim < SoftFloor THEN NoMatch
             ELSE Match("soft", SoftScore(sim), rows[1].record_id)

\* _tier3_soft(embedding, firm_id) when the vector query succeeds
Tier3Soft(embedding, firm_id, tbl) ==
    SoftLoop(Neighbours(embedding, firm_id, tbl), embedding)

\* ───────────────────────── the state ─────────────────────────────────
VARIABLES
    clients,    \* clients, with each client's passports and emirates_ids rows
    index,      \* conflict_index, in insertion order
    results,    \* conflict_results, in insertion order
    now,        \* the clock that utcnow() and datetime.now() read
    queue,      \* the run_conflict_check tasks the broker holds
    running,    \* what each Celery worker process is executing
    last        \* what the latest handler call was given and what it gave back

vars == <<clients, index, results, now, queue, running, last>>

\* the columns of a ConflictResult that no decision has filled yet
NoUser == ""
NoTime == 0
NoState == ""                          \* whatsapp_state of a client of the portal

\* ───────────────────────── conflict_check.py: the engine ─────────────
\* _build_payload(client)
BuildPayload(client) ==
    LET HasName(p) == p.ocr_name # NoText
        HasId(e)   == e.id_number # NoText
        ocrNames   == SelectSeq(client.passports, HasName)
        eids       == SelectSeq(client.emirates_ids, HasId)
    IN  [ full_name        |-> IF ocrNames # <<>> THEN ocrNames[1].ocr_name
                               ELSE client.full_name,
          passport_numbers |-> {client.passports[i].passport_number :
                                    i \in DOMAIN client.passports} \ {NoText},
          emirates_id      |-> IF eids # <<>> THEN eids[1].id_number ELSE NoText,
          nationality      |-> {client.passports[i].nationality :
                                    i \in DOMAIN client.passports} \ {NoText} ]

\* lines 70-77: the embedding, or none when the name is empty or the provider
\* raises
EmbeddingFor(payload, provider_fails) ==
    IF payload.full_name # NoText /\ ~provider_fails
    THEN Embed(payload.full_name) ELSE NullVec

\* What a cascade of tiers gives: the best match, and the call that failed.
Found(best) == [best |-> best, failed |-> "none"]
FailedAt(point) == [best |-> NoMatch, failed |-> point]

\* a cascade that tells its caller when it had to skip the semantic tier
AfterTier2Telling(best, firm_id, embedding, tbl, failure) ==
    IF best.hit THEN Found(best)
    ELSE IF embedding = NullVec
    THEN Found([NoMatch EXCEPT !.match_type = "skipped"])
    ELSE IF failure = "tier3" THEN FailedAt("tier3")
    ELSE Found(Tier3Soft(embedding, firm_id, tbl))

\* lines 85-86: "if not best and embedding: best = _tier3_soft(...)", whose
\* vector query raises when failure = "tier3" and is then answered by None
AfterTier2(best, firm_id, embedding, tbl, failure) ==
    IF best.hit \/ embedding = NullVec THEN Found(best)
    ELSE IF failure = "tier3" THEN FailedAt("tier3")
    ELSE Found(Tier3Soft(embedding, firm_id, tbl))

\* lines 82-83: "if not best: best = _tier2_strong(...)", whose query raises
\* when failure = "tier2"
AfterTier1(best, payload, firm_id, embedding, tbl, failure) ==
    IF best.hit THEN Found(best)
    ELSE IF failure = "tier2" /\ Strip(LowerStr(payload.full_name)) # <<>>
    THEN FailedAt("tier2")
    ELSE AfterTier2(Tier2Strong(payload, firm_id, tbl),
                    firm_id, embedding, tbl, failure)

\* a cascade that asks the fuzzy tier before the exact tier
AfterFuzzy(best, payload, firm_id, embedding, tbl, failure) ==
    IF best.hit THEN Found(best)
    ELSE AfterTier2(Tier1Exact(payload, firm_id, tbl),
                    firm_id, embedding, tbl, failure)

RunTiersFuzzyFirst(payload, firm_id, embedding, tbl, failure) ==
    AfterFuzzy(Tier2Strong(payload, firm_id, tbl),
               payload, firm_id, embedding, tbl, failure)

\* lines 79-94: the cascade of the tiers, the store failing at the call
\* `failure` if the cascade reaches it
RunTiers(payload, firm_id, embedding, tbl, failure) ==
    IF failure = "tier1"
       /\ (payload.passport_numbers # {} \/ payload.emirates_id # NoText)
    THEN FailedAt("tier1")
    ELSE AfterTier1(Tier1Exact(payload, firm_id, tbl),
                    payload, firm_id, embedding, tbl, failure)

\* a row that does not keep the matched record
ResultRowUnlinked(conflict_id, client_id, best) ==
    [ conflict_id       |-> conflict_id,
      client_id         |-> client_id,
      match_type        |-> best.match_type,
      matched_record_id |-> NoRow,
      confidence_score  |-> best.confidence_score,
      reviewed_by       |-> NoUser,
      decision          |-> "pending",
      decision_reason   |-> NoText,
      decision_at       |-> NoTime,
      created_at        |-> now ]

\* lines 100-107: the ConflictResult row, with the defaults of its columns
\* (models.py); created_at is the clock at the insert
ResultRow(conflict_id, client_id, best) ==
    [ conflict_id       |-> conflict_id,
      client_id         |-> client_id,
      match_type        |-> best.match_type,
      matched_record_id |-> best.matched_record_id,
      confidence_score  |-> best.confidence_score,
      reviewed_by       |-> NoUser,
      decision          |-> "pending",
      decision_reason   |-> NoText,
      decision_at       |-> NoTime,
      created_at        |-> now ]

\* a status update without the guard of line 117
StatusAfterAnyStatus(status, score) ==
    IF score >= REVIEW_THRESHOLD THEN "manual_review" ELSE "context_collection"

\* lines 110-120: the client's status after a check that scored `score`
StatusAfter(status, score) ==
    IF score >= REVIEW_THRESHOLD THEN "manual_review"
    ELSE IF status \in {"conflict_check", "id_uploaded"} THEN "context_collection"
    ELSE status

\* a run whose commit of the result is wrapped in a try that swallows
PropagatesLookupsOnly(point) ==
    point \in {"tier1", "tier2", "upsert_lookup", "upsert_write"}

\* Which store calls of run_conflict_check raise out of it.  The lookups of
\* tier 1 and tier 2, the commit of the result and the statements of the
\* upsert run outside any try; the vector query and the upsert's commit run
\* inside one.
Propagates(point) ==
    point \in {"tier1", "tier2", "write", "upsert_lookup", "upsert_write"}

\* The vector query runs in the session's open transaction and its except
\* clause does not roll back (the upsert's except clause does): PostgreSQL
\* rejects every later statement of that transaction, so the INSERT that the
\* commit of line 122 flushes raises.
WriteFails(failure, vector_failed) == failure = "write" \/ vector_failed

\* an overlap lookup that looks for the name instead
UpsertExistingByName(payload, firm_id, tbl) ==
    LET SameName(r) == r.firm_id = firm_id /\ r.full_name = payload.full_name
    IN  Limit(SelectSeq(tbl, SameName), 1)

\* lines 362-371: the entry of the firm that shares a passport number with
\* the payload, if there is one (LIMIT 1)
UpsertExisting(payload, firm_id, tbl) ==
    LET Overlaps(r) == r.firm_id = firm_id
                       /\ r.passport_numbers
                            \cap VarcharArray(payload.passport_numbers) # {}
    IN  Limit(SelectSeq(tbl, Overlaps), 1)

\* lines 375-410: the index after the UPDATE of the entry found, or after
\* the INSERT of a new entry when none was found
UpsertWritten(existing, payload, embedding, firm_id, idx) ==
    IF existing # <<>>
    THEN [i \in DOMAIN idx |->
            IF idx[i].record_id = existing[1].record_id
            THEN [idx[i] EXCEPT !.full_name      = payload.full_name,
                                !.name_embedding = embedding,
                                !.nationality    = payload.nationality]
            ELSE idx[i]]
    ELSE Append(idx,
            [ record_id        |-> Len(idx) + 1,
              firm_id          |-> firm_id,
              full_name        |-> payload.full_name,
              name_embedding   |-> embedding,
              passport_numbers |-> payload.passport_numbers,
              emirates_id      |-> payload.emirates_id,
              nationality      |-> payload.nationality,
              source_file      |-> "intake" ])

\* _upsert_conflict_index(payload, embedding, firm_id): whether it went past
\* the return of line 360, the index it leaves and whether it raised
UpsertConflictIndex(payload, embedding, firm_id, tbl, idx, failure) ==
    IF payload.passport_numbers = {} \/ payload.full_name = NoText
    THEN [ran |-> FALSE, raised |-> FALSE, failed |-> FALSE, index |-> idx]
    ELSE IF failure \in {"upsert_lookup", "upsert_write", "upsert_commit"}
    THEN [ran |-> TRUE, raised |-> Propagates(failure), failed |-> TRUE,
          index |-> idx]
    ELSE [ran |-> TRUE, raised |-> FALSE, failed |-> FALSE,
          index  |-> UpsertWritten(UpsertExisting(payload, firm_id, tbl),
                                   payload, embedding, firm_id, idx)]

\* a call of the upsert that does not ask whether an embedding was obtained
UpsertDueWithoutEmbedding(payload, embedding) == payload.passport_numbers # {}

\* line 125: "if embedding and payload.get("passport_numbers")"
UpsertDue(payload, embedding) ==
    embedding # NullVec /\ payload.passport_numbers # {}

\* What can go wrong in one call: nothing, the embedding provider, or the
\* store at one of its calls.
Failures ==
    {"none", "provider", "tier1", "tier2", "tier3", "write",
     "upsert_lookup", "upsert_write", "upsert_commit"}

\* lines 124-134: the run after its commit, `up` being what the upsert did
CheckAfterUpsert(done, up, failure) ==
    [done EXCEPT !.index  = up.index,
                 !.upserted = up.ran,
                 !.raised = up.raised,
                 !.failed = IF up.failed THEN failure ELSE done.failed]

\* lines 96-122: the run after the tiers, `tiers` being what they gave, up to
\* the commit of the result and of the status
CheckAtCommit(client_id, payload, embedding, tiers, failure) ==
    LET client   == clients[client_id]
        happened == IF tiers.failed # "none" THEN tiers.failed
                    ELSE IF failure = "write" THEN "write"
                    ELSE IF failure = "provider" /\ payload.full_name # NoText
                    THEN "provider"
                    ELSE "none"
        base     == [ payload |-> payload, firm_id |-> client.firm_id,
                      embedding |-> embedding, failed |-> happened,
                      best |-> NoMatch, committed |-> FALSE,
                      results |-> results, status |-> client.status,
                      index |-> index, upserted |-> FALSE, raised |-> TRUE ]
    IN  IF tiers.failed \in {"tier1", "tier2"} /\ Propagates(tiers.failed)
        THEN base
        ELSE IF WriteFails(failure, tiers.failed = "tier3") /\ Propagates("write")
        THEN base
        ELSE [base EXCEPT
                !.best      = tiers.best,
                !.committed = TRUE,
                !.raised    = FALSE,
                !.results   = Append(results,
                                     ResultRow(Len(results) + 1, client_id,
                                               tiers.best)),
                !.status    = StatusAfter(client.status,
                                          tiers.best.confidence_score)]

\* lines 124-134 of a run that is at its commit
CheckUpsert(done, tbl, failure) ==
    IF ~done.committed THEN done
    ELSE CheckAfterUpsert(
            done,
            IF UpsertDue(done.payload, done.embedding)
            THEN UpsertConflictIndex(done.payload, done.embedding, done.firm_id,
                                     tbl, index, failure)
            ELSE [ran |-> FALSE, raised |-> FALSE, failed |-> FALSE,
                  index |-> index],
            failure)

\* lines 96-134: the run after the tiers
CheckAfterTiers(client_id, payload, embedding, tiers, tbl, failure) ==
    CheckUpsert(CheckAtCommit(client_id, payload, embedding, tiers, failure),
                tbl, failure)

\* lines 79-134: the run once the embedding was asked for
CheckAfterEmbedding(client_id, payload, embedding, tbl, failure) ==
    CheckAfterTiers(client_id, payload, embedding,
                    RunTiers(payload, clients[client_id].firm_id, embedding,
                             tbl, failure),
                    tbl, failure)

\* lines 69-134: the run once the payload was built
CheckAfterPayload(client_id, payload, tbl, failure) ==
    CheckAfterEmbedding(client_id, payload,
                        EmbeddingFor(payload, failure = "provider"), tbl, failure)

\* run_conflict_check(client_id) of conflict_check.py, for a client that
\* exists: what it returns or that it raised, and what it committed.
\* `failure` is the call that fails if the run reaches it; `failed` is the
\* failure that did happen.
CheckOutcome(client_id, tbl, failure) ==
    CheckAfterPayload(client_id, BuildPayload(clients[client_id]), tbl, failure)

\* ───────────────────────── conflict.py: check_manual ─────────────────
\* lines 217-224: the embedding is asked for only now, and whatever the
\* provider or the vector query raises is passed over
ManualAfterTier2(best, payload, firm_id, tbl, failure) ==
    IF best.hit THEN [best |-> best, embedding |-> NullVec, failed |-> "none"]
    ELSE IF failure = "provider"
    THEN [best |-> NoMatch, embedding |-> NullVec, failed |-> "provider"]
    ELSE IF failure = "tier3"
    THEN [best |-> NoMatch, embedding |-> Embed(payload.full_name),
          failed |-> "tier3"]
    ELSE [best |-> Tier3Soft(Embed(payload.full_name), firm_id, tbl),
          embedding |-> Embed(payload.full_name), failed |-> "none"]

\* lines 215-216
ManualAfterTier1(best, payload, firm_id, tbl, failure) ==
    IF best.hit THEN [best |-> best, embedding |-> NullVec, failed |-> "none"]
    ELSE ManualAfterTier2(Tier2Strong(payload, firm_id, tbl),
                          payload, firm_id, tbl, failure)

\* lines 214-227: the cascade of check_manual
CheckManualTiers(payload, firm_id, tbl, failure) ==
    ManualAfterTier1(Tier1Exact(payload, firm_id, tbl),
                     payload, firm_id, tbl, failure)

\* ───────────────────────── inputs of the handlers ────────────────────
\* the orders in which the store may return the rows of a table that is
\* read without ORDER BY
ScanOrders(tbl) ==
    IF tbl = <<>> THEN {<<>>}
    ELSE {[i \in DOMAIN tbl |-> tbl[p[i]]] : p \in Permutations(DOMAIN tbl)}

\* the JSON files given to import_conflict_db.py, with the firm they are for
ImportFiles ==
    { [ firm_id |-> FirmA,
        record  |-> [ full_name        |-> NameMohammedSp,
                      passport_numbers |-> {RawPassportP2},
                      emirates_id      |-> EidOcr,
                      nationality      |-> {NatUaeLower} ] ],
      [ firm_id |-> FirmA,
        record  |-> [ full_name        |-> NameMohamad,
                      passport_numbers |-> {RawPassportPair},
                      emirates_id      |-> NoText,
                      nationality      |-> {NatUAE} ] ],
      [ firm_id |-> FirmB,
        record  |-> [ full_name        |-> NameMohamed,
                      passport_numbers |-> {PassportP1},
                      emirates_id      |-> EidOcr,
                      nationality      |-> {NatUAE} ] ] }

\* the clients whose status the admin edits by hand
AdminEdits == {"c1"}

\* the clients whose documents the OCR has read, whose checks the tiers and
\* the admins' decisions are studied on
ReadClients == {"c1", "c2"}

\* the client whose status the admin edits where the provider may fail
DegradedEdits == {"c3"}

\* the bodies posted to /api/conflict/check-manual
ManualBodies ==
    { [ full_name |-> NameUmar, passport_numbers |-> {},
        emirates_id |-> NoText, nationality |-> {} ],
      [ full_name |-> NameMohamed, passport_numbers |-> {},
        emirates_id |-> NoText, nationality |-> {} ],
      [ full_name |-> NameAmar, passport_numbers |-> {},
        emirates_id |-> NoText, nationality |-> {NatUaeLower} ],
      [ full_name |-> NameOmar, passport_numbers |-> {RawPassportPair},
        emirates_id |-> NoText, nationality |-> {} ],
      [ full_name |-> NameMohamad, passport_numbers |-> {PassportP1},
        emirates_id |-> EidOcr, nationality |-> {NatIN} ],
      [ full_name |-> <<" ">>, passport_numbers |-> {PassportP1},
        emirates_id |-> NoText, nationality |-> {} ] }

\* a body whose identifiers and nationality are a hyphen or a space, and the
\* bodies posted by the forms
BlankBody ==
    [ full_name |-> NameOmar, passport_numbers |-> {<<"-">>},
      emirates_id |-> <<"-">>, nationality |-> {<<" ">>} ]
FormBodies == ManualBodies \cup {BlankBody}

\* the calls that may fail in a task: the lookup of the first tier, the commit
\* of the result, the statements of the upsert, the notification, the e-mail
TaskFailures == {"none", "tier1", "write", "upsert_write", "notify", "email"}

\* the clients who upload one more passport, and what OCR reads on it
UploadClients == {"c2"}
OcrReadings ==
    { [ passport_number |-> PassportP1, nationality |-> NatUAE,
        ocr_name |-> NoText ] }

\* the bodies put to /client/edit/profile, with the client whose token the
\* request carries
ProfileEdits ==
    { [client_id |-> "c1", full_name |-> NameMohammedSp],
      [client_id |-> "c1", full_name |-> NameMohamed],
      [client_id |-> "c3", full_name |-> NameAmar] }

\* the documents whose OCR task may run
DocumentTypes == {"passport", "emirates_id"}

\* ───────────────────────── Init ──────────────────────────────────────
\* the worker processes of the Celery worker, and a process that has no task
Workers == {"w1", "w2"}
Free ==
    [ pc |-> "free", client_id |-> "", retries |-> 0, firm_id |-> "",
      payload |-> <<>>, embedding |-> NullVec, existing |-> <<>>, score |-> 0 ]

\* what `last` holds when the latest call was not a check
Idle(op) ==
    [ op |-> op, client_id |-> "", firm_id |-> "", conflict_id |-> 0,
      payload |-> <<>>,
      embedding |-> NullVec, failed |-> "none",
      raised |-> FALSE, committed |-> FALSE, upserted |-> FALSE,
      errors |-> <<>>, best |-> NoMatch, statusBefore |-> "",
      queued |-> 0,
      resultsBefore |-> <<>>, indexBefore |-> <<>> ]

\* Three clients of firm A have registered and uploaded their documents, the
\* second over WhatsApp, where the client was told to wait for the check; OCR
\* has read those of the first two and not yet the passport of the third.  The
\* conflict index and the results are empty, no task is queued and the
\* workers are free.
Init ==
    /\ clients =
         [c \in ClientIds |->
            IF c = "c1"
            THEN [ firm_id      |-> FirmA,
                   channel      |-> "web",
                   whatsapp_state |-> NoState,
                   status       |-> "conflict_check",
                   full_name    |-> NameMohamed,
                   passports    |-> << [ passport_number |-> PassportP1,
                                         nationality     |-> NatUAE,
                                         ocr_name        |-> NoText ] >>,
                   emirates_ids |-> << [ id_number |-> EidOcr ] >> ]
            ELSE IF c = "c2"
            THEN [ firm_id      |-> FirmA,
                   channel      |-> "whatsapp",
                   whatsapp_state |-> "conflict_pending",
                   status       |-> "conflict_check",
                   full_name    |-> NameUmar,
                   passports    |-> << [ passport_number |-> PassportP2,
                                         nationality     |-> NatIN,
                                         ocr_name        |-> NameOmar ] >>,
                   emirates_ids |-> <<>> ]
            ELSE [ firm_id      |-> FirmA,
                   channel      |-> "web",
                   whatsapp_state |-> NoState,
                   status       |-> "id_uploaded",
                   full_name    |-> NameAmar,
                   passports    |-> << [ passport_number |-> NoText,
                                         nationality     |-> NoText,
                                         ocr_name        |-> NoText ] >>,
                   emirates_ids |-> <<>> ]]
    /\ index = <<>>
    /\ results = <<>>
    /\ now = 1
    /\ queue = <<>>
    /\ running = [w \in Workers |-> Free]
    /\ last = Idle("init")

\* ───────────────────────── actions ───────────────────────────────────
\* import_file, lines 69-105, for one normalised record
ImportRecord(firm_id, payload, tbl) ==
    LET SameName(r) == r.firm_id = firm_id /\ r.full_name = payload.full_name
        existing == Limit(SelectSeq(tbl, SameName), 1)
        skipped  == \/ ValidatePayload(payload) # <<>>
                    \/ /\ existing # <<>>
                       /\ existing[1].passport_numbers \cap payload.passport_numbers # {}
        record   == [ record_id        |-> Len(index) + 1,
                      firm_id          |-> firm_id,
                      full_name        |-> payload.full_name,
                      name_embedding   |-> NullVec,
                      passport_numbers |-> payload.passport_numbers,
                      emirates_id      |-> payload.emirates_id,
                      nationality      |-> payload.nationality,
                      source_file      |-> "import" ]
    IN  /\ index' = IF skipped THEN index ELSE Append(index, record)
        /\ last' = Idle("import")
        /\ UNCHANGED <<clients, results, now, queue, running>>

\* import_conflict_db.import_file for a file of one record
ImportFile(file, tbl) ==
    ImportRecord(file.firm_id, NormaliseDbRecord(file.record), tbl)

\* admin.update_status: PUT /admin/clients/<client_id>/status
UpdateStatus(firm_id, client_id, new_status) ==
    /\ client_id \in ClientIds
    /\ clients' = IF clients[client_id].firm_id = firm_id
                  THEN [clients EXCEPT ![client_id].status = new_status]
                  ELSE clients
    /\ last' = Idle("status")
    /\ UNCHANGED <<index, results, now, queue, running>>

\* what a run of run_conflict_check leaves in the store and gives its caller
CheckDone(client_id, out) ==
    /\ clients' = [clients EXCEPT ![client_id].status = out.status]
    /\ index'   = out.index
    /\ results' = out.results
    /\ now' = IF out.committed THEN now + 1 ELSE now
    /\ UNCHANGED <<queue, running>>
    /\ last' = [ op |-> "check", client_id |-> client_id,
                 firm_id |-> out.firm_id, conflict_id |-> 0,
                 payload |-> out.payload,
                 embedding |-> out.embedding, failed |-> out.failed,
                 raised |-> out.raised, committed |-> out.committed,
                 upserted |-> out.upserted,
                 errors |-> <<>>, best |-> out.best,
                 statusBefore |-> clients[client_id].status,
                 queued |-> 0,
                 resultsBefore |-> results, indexBefore |-> index ]

\* utils.conflict_check.run_conflict_check(client_id) for a client that exists
RunConflictCheck(client_id, tbl, failure) ==
    CheckDone(client_id, CheckOutcome(client_id, tbl, failure))

\* a run that goes on without the client and stores a result with no match
RunConflictCheckUnguarded(client_id) ==
    /\ client_id \notin ClientIds
    /\ results' = Append(results, ResultRow(Len(results) + 1, client_id, NoMatch))
    /\ now' = now + 1
    /\ last' = [Idle("check") EXCEPT !.client_id = client_id,
                                    !.committed = TRUE,
                                    !.resultsBefore = results,
                                    !.indexBefore = index]
    /\ UNCHANGED <<clients, index, queue, running>>

\* run_conflict_check(client_id), lines 60-62: no such client
RunConflictCheckNotFound(client_id) ==
    /\ client_id \notin ClientIds
    /\ last' = [Idle("check") EXCEPT !.client_id = client_id,
                                    !.raised = TRUE,
                                    !.resultsBefore = results,
                                    !.indexBefore = index]
    /\ UNCHANGED <<clients, index, results, now, queue, running>>

\* check_manual, lines 228-244: the reply
ManualDone(firm_id, payload, tiers) ==
    /\ last' = [Idle("manual") EXCEPT
                  !.firm_id = firm_id, !.payload = payload,
                  !.embedding = tiers.embedding, !.failed = tiers.failed,
                  !.best = tiers.best,
                  !.resultsBefore = results, !.indexBefore = index]
    /\ UNCHANGED <<clients, index, results, now, queue, running>>

\* check_manual, lines 206-227, for the normalised body
ManualChecked(firm_id, payload, tbl, failure) ==
    IF ValidatePayload(payload) # <<>>
    THEN /\ last' = [Idle("manual") EXCEPT
                       !.firm_id = firm_id, !.payload = payload,
                       !.errors = ValidatePayload(payload),
                       !.resultsBefore = results, !.indexBefore = index]
         /\ UNCHANGED <<clients, index, results, now, queue, running>>
    ELSE ManualDone(firm_id, payload,
                    CheckManualTiers(payload, firm_id, tbl, failure))

\* conflict.check_manual: POST /api/conflict/check-manual
CheckManual(firm_id, body, tbl, failure) ==
    ManualChecked(firm_id, NormaliseManualInput(body), tbl, failure)

\* conflict.validate: POST /api/conflict/validate-payload, lines 173-184; the
\* body is given to validate_payload as it was posted
ValidateRoute(body) ==
    /\ last' = [Idle("validate") EXCEPT
                  !.payload = body, !.errors = ValidatePayload(body),
                  !.resultsBefore = results, !.indexBefore = index]
    /\ UNCHANGED <<clients, index, results, now, queue, running>>

\* ───────────────────────── admin.py: decide_conflict ────────────────
\* lines 515-517: the sessions that post, each the user and the firm of an
\* admin; then the reasons the admins type and the decisions they post
Admins      == { [user_id |-> "u1", firm_id |-> FirmA],
                 [user_id |-> "u2", firm_id |-> FirmB] }
ReasonOk    == <<"o", "k", " ">>
ReasonBlank == <<" ">>
Reasons     == {ReasonOk, ReasonBlank}
PostedDecisions == {"approved", "rejected", "pending"}
GhostConflict == 9                     \* an id with no row in conflict_results

\* a decision that also resets the score of the result
DecidedRescored(row, decision, reason, user_id) ==
    [row EXCEPT !.decision         = decision,
                !.decision_reason  = reason,
                !.reviewed_by      = user_id,
                !.decision_at      = now,
                !.confidence_score = 0]

\* lines 537-540: the ConflictResult after the decision was written on it
Decided(row, decision, reason, user_id) ==
    [row EXCEPT !.decision        = decision,
                !.decision_reason = reason,
                !.reviewed_by     = user_id,
                !.decision_at     = now]

\* lines 527-534: the result with this id whose client is of this firm
ConflictOfFirm(firm_id, conflict_id) ==
    LET Mine(row) == /\ row.conflict_id = conflict_id
                     /\ clients[row.client_id].firm_id = firm_id
    IN  Limit(SelectSeq(results, Mine), 1)

\* lines 522-525: what the body is refused for
DecisionErrors(decision, reason) ==
    IF decision \notin {"approved", "rejected"}
    THEN <<"decision must be 'approved' or 'rejected'.">>
    ELSE IF decision = "approved" /\ reason = NoText
    THEN <<"A reason is required when approving a conflict case.">>
    ELSE <<>>

\* what `last` holds after a call of decide_conflict
DecideReply(firm_id, conflict_id, errors) ==
    [Idle("decide") EXCEPT !.firm_id = firm_id, !.conflict_id = conflict_id,
                           !.errors = errors,
                           !.resultsBefore = results, !.indexBefore = index]

\* lines 537-552: the decision is written on the result and on its client
DecideFound(firm_id, user_id, conflict, decision, reason) ==
    /\ results' = [i \in DOMAIN results |->
                      IF results[i].conflict_id = conflict.conflict_id
                      THEN Decided(results[i], decision, reason, user_id)
                      ELSE results[i]]
    /\ clients' = [clients EXCEPT ![conflict.client_id].status =
                      IF decision = "approved" THEN "approved" ELSE "rejected"]
    /\ now' = now + 1
    /\ last' = [DecideReply(firm_id, conflict.conflict_id, <<>>) EXCEPT
                  !.client_id = conflict.client_id,
                  !.committed = TRUE,
                  !.statusBefore = clients[conflict.client_id].status]
    /\ UNCHANGED <<index, queue, running>>

\* lines 522-535, reason being the body's reason stripped
DecideChecked(firm_id, user_id, conflict_id, decision, reason, found) ==
    IF DecisionErrors(decision, reason) # <<>>
    THEN /\ last' = DecideReply(firm_id, conflict_id,
                                DecisionErrors(decision, reason))
         /\ UNCHANGED <<clients, index, results, now, queue, running>>
    ELSE IF found = <<>>
    THEN /\ last' = DecideReply(firm_id, conflict_id, <<"Conflict result not found.">>)
         /\ UNCHANGED <<clients, index, results, now, queue, running>>
    ELSE DecideFound(firm_id, user_id, found[1], decision, reason)

\* admin.decide_conflict: POST /admin/conflict/<conflict_id>/decide (the
\* audit_logs row it adds is not part of the state)
DecideConflict(firm_id, user_id, conflict_id, decision, reason) ==
    DecideChecked(firm_id, user_id, conflict_id, decision, Strip(reason),
                  ConflictOfFirm(firm_id, conflict_id))

\* ───────────────────────── process_docs.py: the tasks ───────────────
\* run_conflict_check.delay(client_id): the broker's queue with one more task
Task(client_id, retries) == [client_id |-> client_id, retries |-> retries]
Delay(client_id) == Append(queue, Task(client_id, 0))

\* run_ocr, lines 106-115: the OCR task of a document of the client has
\* written what it read on the document's row (for a document read before,
\* what the row holds; for the passport of the third client, whose image
\* cannot be read, nothing) and queues a check when every passport of the
\* client has a number
RunOcr(client_id, document_type) ==
    LET client   == clients[client_id]
        all_done == \A i \in DOMAIN client.passports :
                        client.passports[i].passport_number # NoText
    IN  /\ document_type = "passport" => client.passports # <<>>
        /\ document_type = "emirates_id" => client.emirates_ids # <<>>
        /\ queue' = IF all_done /\ client.passports # <<>>
                     THEN Delay(client_id) ELSE queue
        /\ last' = [Idle("ocr") EXCEPT !.client_id = client_id,
                                       !.queued = Len(queue') - Len(queue)]
        /\ UNCHANGED <<clients, index, results, now, running>>

\* client.edit_profile: PUT /client/edit/profile with a full_name
EditProfile(client_id, full_name) ==
    LET new_val      == Strip(full_name)
        name_changed == clients[client_id].full_name # new_val
    IN  /\ clients' = [clients EXCEPT ![client_id].full_name = new_val]
        /\ queue' = IF name_changed THEN Delay(client_id) ELSE queue
        /\ last' = [Idle("edit") EXCEPT !.client_id = client_id,
                                        !.queued = Len(queue') - Len(queue)]
        /\ UNCHANGED <<index, results, now, running>>

\* conflict.run_check: POST /api/conflict/check/<client_id>, Celery being up
RunCheck(firm_id, client_id) ==
    /\ queue' = IF client_id \in ClientIds /\ clients[client_id].firm_id = firm_id
                 THEN Delay(client_id) ELSE queue
    /\ last' = [Idle("run_check") EXCEPT !.client_id = client_id,
                                         !.firm_id = firm_id,
                                         !.queued = Len(queue') - Len(queue)]
    /\ UNCHANGED <<clients, index, results, now, running>>

\* whatsapp.notify_conflict_result(client, score), lines 441-463: the client
\* row it leaves
NotifyConflictResult(client, score) ==
    IF client.whatsapp_state # "conflict_pending" THEN client
    ELSE IF score >= REVIEW_THRESHOLD THEN client
    ELSE [client EXCEPT !.whatsapp_state = "statement_1",
                        !.status         = "context_collection"]

\* tasks.run_conflict_check, lines 196-204: the client row after the try
\* block of the notification, which passes over whatever is raised in it
TaskNotified(client, score, failure) ==
    IF client.channel = "whatsapp" /\ failure # "notify"
    THEN NotifyConflictResult(client, score)
    ELSE client

\* a task that is queued again whenever its run raised
TaskRetriedForever(raised, retries) == raised

\* tasks.run_conflict_check, lines 186-219: self.retry queues the task again
\* when the engine raised and the task has retries left; what the two try
\* blocks after the engine pass over does not reach it
TaskRetried(raised, retries) == raised /\ retries < MaxRetries

\* tasks.run_conflict_check, lines 186-219, run from its start to its end by
\* one process while no other runs: the task at the head of the queue, the
\* engine of conflict_check.py, the notification, the e-mail and self.retry.
\* `failure` is the call that fails if the task reaches it.
RunTask(tbl, failure) ==
    LET task      == Head(queue)
        client_id == task.client_id
        out       == CheckOutcome(client_id, tbl, failure)
        checked   == [clients[client_id] EXCEPT !.status = out.status]
        retried   == TaskRetried(out.raised, task.retries)
    IN  /\ clients' = [clients EXCEPT ![client_id] =
                          IF out.raised THEN checked
                          ELSE TaskNotified(checked, out.best.confidence_score,
                                            failure)]
        /\ index'   = out.index
        /\ results' = out.results
        /\ now' = IF out.committed THEN now + 1 ELSE now
        /\ queue' = IF retried
                     THEN Append(Tail(queue), Task(client_id, task.retries + 1))
                     ELSE Tail(queue)
        /\ last' = [Idle("task") EXCEPT
                      !.client_id = client_id, !.firm_id = out.firm_id,
                      !.payload = out.payload, !.embedding = out.embedding,
                      !.failed = IF ~out.raised /\ failure \in {"notify", "email"}
                                 THEN failure ELSE out.failed,
                      !.raised = out.raised, !.committed = out.committed,
                      !.upserted = out.upserted, !.best = out.best,
                      !.statusBefore = clients[client_id].status,
                      !.queued = IF retried THEN 1 ELSE 0,
                      !.resultsBefore = results, !.indexBefore = index]
        /\ UNCHANGED running

\* client.upload_passport: POST /client/upload/passport, lines 364-424: one
\* more passport row, which OCR has not read yet (the OCR task it queues is
\* the action RunOcrReads)
UploadPassport(client_id) ==
    /\ clients' = [clients EXCEPT
                      ![client_id].passports =
                          Append(@, [ passport_number |-> NoText,
                                      nationality     |-> NoText,
                                      ocr_name        |-> NoText ]),
                      ![client_id].status =
                          IF @ = "pending" THEN "id_uploaded" ELSE @]
    /\ last' = [Idle("upload") EXCEPT !.client_id = client_id]
    /\ UNCHANGED <<index, results, now, queue, running>>

\* run_ocr, lines 53-115, for a passport row that was not read before: the
\* task writes what it reads on the row and queues a check when every
\* passport of the client has a number
RunOcrReads(client_id, i, fields) ==
    LET read     == [clients[client_id].passports EXCEPT ![i] = fields]
        all_done == \A k \in DOMAIN read : read[k].passport_number # NoText
    IN  /\ i \in DOMAIN clients[client_id].passports
        /\ clients[client_id].passports[i].passport_number = NoText
        /\ clients' = [clients EXCEPT ![client_id].passports = read]
        /\ queue' = IF all_done THEN Delay(client_id) ELSE queue
        /\ last' = [Idle("ocr") EXCEPT !.client_id = client_id,
                                       !.queued = Len(queue') - Len(queue)]
        /\ UNCHANGED <<index, results, now, running>>

\* client.upload_complete: POST /client/upload/complete, lines 701-737: the
\* client goes on from the upload step (the OCR tasks it queues, one for each
\* passport, end in the action RunOcr)
UploadComplete(client_id) ==
    /\ clients' = IF /\ clients[client_id].passports # <<>>
                     /\ clients[client_id].status \in {"pending", "id_uploaded"}
                  THEN [clients EXCEPT ![client_id].status = "conflict_check"]
                  ELSE clients
    /\ last' = [Idle("complete") EXCEPT
                  !.client_id = client_id,
                  !.statusBefore = clients[client_id].status,
                  !.errors = IF clients[client_id].passports = <<>>
                             THEN <<"Please upload at least one passport before continuing.">>
                             ELSE <<>>]
    /\ UNCHANGED <<index, results, now, queue, running>>

\* the rows of conflict_results of a client
ResultsOf(client_id) ==
    {i \in 1..Len(results) : results[i].client_id = client_id}

\* routes.conflict.get_result, lines 89-94: ORDER BY created_at DESC, first
\* row (the rows it may be when two rows have one created_at)
GetResult(client_id) ==
    {i \in ResultsOf(client_id) :
        \A j \in ResultsOf(client_id) : results[j].created_at <= results[i].created_at}

\* routes.admin.case_detail_data, lines 357-363, and clients_data, lines
\* 259-274: ORDER BY confidence_score DESC, first row of the client (the
\* rows it may be when two rows have one score)
CaseDetailConflict(client_id) ==
    {i \in ResultsOf(client_id) :
        \A j \in ResultsOf(client_id) :
            results[j].confidence_score <= results[i].confidence_score}

\* whatsapp._dispatch, lines 98-99, and _handle_conflict_pending, lines
\* 228-233: a message of a client in conflict_pending is answered "We're still
\* verifying your information" and changes nothing
HandleConflictPending(client_id) ==
    /\ clients[client_id].channel = "whatsapp"
    /\ clients[client_id].whatsapp_state = "conflict_pending"
    /\ last' = [Idle("still_verifying") EXCEPT !.client_id = client_id]
    /\ UNCHANGED <<clients, index, results, now, queue, running>>

\* a free worker process takes the task at the head of the queue
TaskStart(w) ==
    /\ running[w] = Free /\ queue # <<>>
    /\ running' = [running EXCEPT ![w] =
                      [Free EXCEPT !.pc = "check",
                                   !.client_id = Head(queue).client_id,
                                   !.retries = Head(queue).retries]]
    /\ queue' = Tail(queue)
    /\ last' = [Idle("start") EXCEPT !.client_id = Head(queue).client_id]
    /\ UNCHANGED <<clients, index, results, now>>

\* tasks.run_conflict_check, lines 192-219, for lines 60-122 of the engine:
\* what the process goes on with.  A run that raised is queued again by
\* self.retry while it has retries left; a run that committed goes on to the
\* upsert if lines 125 and 359 let it.
TaskCommitted(w, out, failure) ==
    LET client_id == running[w].client_id
        upserts   == /\ out.committed
                     /\ UpsertDue(out.payload, out.embedding)
                     /\ out.payload.full_name # NoText
        checked   == [clients[client_id] EXCEPT !.status = out.status]
    IN  /\ clients' = [clients EXCEPT ![client_id] =
                          IF out.committed /\ ~upserts
                          THEN TaskNotified(checked, out.best.confidence_score,
                                            failure)
                          ELSE checked]
        /\ results' = out.results
        /\ now' = IF out.committed THEN now + 1 ELSE now
        /\ running' = [running EXCEPT ![w] =
                          IF upserts
                          THEN [running[w] EXCEPT
                                   !.pc = "lookup",
                                   !.firm_id = out.firm_id,
                                   !.payload = out.payload,
                                   !.embedding = out.embedding,
                                   !.score = out.best.confidence_score]
                          ELSE Free]
        /\ queue' = IF TaskRetried(out.raised, running[w].retries)
                     THEN Append(queue, Task(client_id, running[w].retries + 1))
                     ELSE queue
        /\ last' = [Idle("task") EXCEPT !.client_id = client_id,
                                        !.raised = out.raised,
                                        !.committed = out.committed,
                                        !.best = out.best,
                                        !.failed = out.failed,
                                        !.queued = Len(queue') - Len(queue)]
        /\ UNCHANGED index

\* lines 70-122 of the engine in a worker process
TaskAfterPayload(client_id, payload, embedding, tbl, failure) ==
    CheckAtCommit(client_id, payload, embedding,
                  RunTiers(payload, clients[client_id].firm_id, embedding,
                           tbl, failure),
                  failure)

\* the worker process runs the engine up to the commit of the result
TaskCheck(w, tbl, failure) ==
    /\ running[w].pc = "check"
    /\ TaskCommitted(w,
            TaskAfterPayload(running[w].client_id,
                             BuildPayload(clients[running[w].client_id]),
                             EmbeddingFor(BuildPayload(clients[running[w].client_id]),
                                          failure = "provider"),
                             tbl, failure),
            failure)

\* _upsert_conflict_index, lines 362-371, in a worker process: the lookup
TaskLookup(w, tbl) ==
    /\ running[w].pc = "lookup"
    /\ running' = [running EXCEPT ![w] =
                      [running[w] EXCEPT
                          !.pc = "write",
                          !.existing = UpsertExisting(running[w].payload,
                                                      running[w].firm_id, tbl)]]
    /\ last' = [Idle("lookup") EXCEPT !.client_id = running[w].client_id]
    /\ UNCHANGED <<clients, index, results, now, queue>>

\* _upsert_conflict_index, lines 375-416, in a worker process: the UPDATE or
\* the INSERT, and the commit; the engine returns and the task notifies
TaskWrite(w) ==
    /\ running[w].pc = "write"
    /\ index' = UpsertWritten(running[w].existing, running[w].payload,
                              running[w].embedding, running[w].firm_id, index)
    /\ clients' = [clients EXCEPT ![running[w].client_id] =
                      TaskNotified(clients[running[w].client_id],
                                   running[w].score, "none")]
    /\ running' = [running EXCEPT ![w] = Free]
    /\ last' = [Idle("write") EXCEPT !.client_id = running[w].client_id,
                                     !.indexBefore = index]
    /\ UNCHANGED <<results, now, queue>>

\* ───────────────────────── specifications ────────────────────────────
\* the engine with its failures
Import ==
    /\ Len(index) < MaxIndex
    /\ \E file \in ImportFiles, tbl \in ScanOrders(index) : ImportFile(file, tbl)
Status ==
    \E c \in AdminEdits, f \in Firms, s \in ClientStatus : UpdateStatus(f, c, s)
Check ==
    /\ Len(results) < MaxResults
    /\ \/ \E c \in ClientIds, tbl \in ScanOrders(index), failure \in Failures :
            RunConflictCheck(c, tbl, failure) /\ Len(index') <= MaxIndex
       \/ RunConflictCheckNotFound(GhostClient)

Next == Import \/ Status \/ Check
Spec == Init /\ [][Next]_vars

\* the tiers, on a store that does not fail
ImportTiers ==
    /\ Len(index) < MaxIndex
    /\ \E file \in ImportFiles, tbl \in ScanOrders(index) : ImportFile(file, tbl)
CheckNoFault ==
    /\ Len(results) < MaxTierChecks
    /\ \E c \in ReadClients, tbl \in ScanOrders(index) :
            RunConflictCheck(c, tbl, "none") /\ Len(index') <= MaxIndex
Manual ==
    \E f \in Firms, body \in ManualBodies, tbl \in ScanOrders(index),
       failure \in {"none", "provider"} : CheckManual(f, body, tbl, failure)

NextTiers == ImportTiers \/ CheckNoFault \/ Manual
SpecTiers == Init /\ [][NextTiers]_vars

\* the forms and the admin tools that validate a payload or check one by hand
Validate ==
    \E body \in FormBodies : ValidateRoute(body)
ManualForm ==
    \E f \in Firms, body \in FormBodies, tbl \in ScanOrders(index),
       failure \in {"none", "provider"} : CheckManual(f, body, tbl, failure)

NextForms == ImportTiers \/ ManualForm \/ Validate
SpecForms == Init /\ [][NextForms]_vars

\* the results and the admins who decide them
ReviewCheck ==
    /\ Len(results) < MaxReviewed
    /\ \E c \in ReadClients, tbl \in ScanOrders(index) :
            RunConflictCheck(c, tbl, "none") /\ Len(index') <= MaxIndex
Decide ==
    /\ now - Len(results) <= MaxDecisions
    /\ \E a \in Admins, id \in (1..Len(results)) \cup {GhostConflict},
          d \in PostedDecisions, reason \in Reasons :
            DecideConflict(a.firm_id, a.user_id, id, d, reason)

NextReview == ReviewCheck \/ Decide
SpecReview == Init /\ [][NextReview]_vars

\* the checks that an embedding provider that may fail takes part in, and
\* the admin who sets a client's status by hand
CheckDegraded ==
    /\ Len(results) < MaxDegraded
    /\ \E c \in ClientIds, tbl \in ScanOrders(index),
          failure \in {"none", "provider"} :
            RunConflictCheck(c, tbl, failure) /\ Len(index') <= MaxIndex
StatusDegraded ==
    \E c \in DegradedEdits, f \in Firms, s \in ClientStatus : UpdateStatus(f, c, s)

NextDegraded == CheckDegraded \/ StatusDegraded
SpecDegraded == Init /\ [][NextDegraded]_vars

\* the triggers of the check and the worker processes that run it
InFlight == {w \in Workers : running[w] # Free}
Tasks    == Len(queue) + Cardinality(InFlight) + Len(results)

Ocr ==
    /\ Tasks < MaxTasks
    /\ \E c \in ClientIds, d \in DocumentTypes : RunOcr(c, d)
Edit ==
    /\ Tasks < MaxTasks
    /\ \E e \in ProfileEdits : EditProfile(e.client_id, e.full_name)
AdminCheck ==
    /\ Tasks < MaxTasks
    /\ \E f \in Firms, c \in ClientIds \cup {GhostClient} : RunCheck(f, c)
Start  == \E w \in Workers : TaskStart(w)
Work   == \E w \in Workers, tbl \in ScanOrders(index),
             failure \in {"none", "write"} : TaskCheck(w, tbl, failure)
Lookup == \E w \in Workers, tbl \in ScanOrders(index) : TaskLookup(w, tbl)
Write  == \E w \in Workers : TaskWrite(w)

NextRace == Ocr \/ Edit \/ AdminCheck \/ Start \/ Work \/ Lookup \/ Write
SpecRace == Init /\ [][NextRace]_vars

\* the tasks that an admin dispatches and one worker process runs
Dispatch ==
    /\ Tasks < MaxTasks
    /\ \E c \in ClientIds : RunCheck(clients[c].firm_id, c)
Run ==
    /\ queue # <<>>
    /\ \E tbl \in ScanOrders(index), failure \in TaskFailures :
            RunTask(tbl, failure) /\ Len(index') <= MaxIndex

NextRetry == Dispatch \/ Run
SpecRetry == Init /\ [][NextRetry]_vars

\* the clients who upload one more passport after a check, and the checks
\* that one worker process runs on a store that does not fail
Upload ==
    \E c \in UploadClients :
        Len(clients[c].passports) < MaxPassports /\ UploadPassport(c)
Read ==
    /\ Tasks < MaxTasks
    /\ \E c \in UploadClients, i \in 1..MaxPassports, fields \in OcrReadings :
            RunOcrReads(c, i, fields)
RunNoFault ==
    /\ queue # <<>>
    /\ \E tbl \in ScanOrders(index) :
            RunTask(tbl, "none") /\ Len(index') <= MaxIndex

NextUpsert == ImportTiers \/ Dispatch \/ Upload \/ Read \/ RunNoFault
SpecUpsert == Init /\ [][NextUpsert]_vars

\* the clients who go on from the upload step, the OCR tasks that end and the
\* checks that one worker process runs
Complete == \E c \in ClientIds : UploadComplete(c)

NextIntake == Complete \/ Ocr \/ RunNoFault
SpecIntake == Init /\ [][NextIntake]_vars

\* the checks whose results the admin views and the result route read, with
\* an embedding provider that may fail
ViewedCheck ==
    /\ Len(results) < MaxViewed
    /\ \E c \in ClientIds, tbl \in ScanOrders(index),
          failure \in {"none", "provider"} :
            RunConflictCheck(c, tbl, failure) /\ Len(index') <= MaxIndex

NextViews == ImportTiers \/ ViewedCheck
SpecViews == Init /\ [][NextViews]_vars

\* the WhatsApp client whose check an admin resolves
Message == \E c \in ClientIds : HandleConflictPending(c)

NextResolve == ImportTiers \/ Dispatch \/ RunNoFault \/ Decide \/ Message
SpecResolve == Init /\ [][NextResolve]_vars

\* ───────────────────────── what the claims speak of ──────────────────
\* the latest call ran the tiers: a check, or a manual check of a valid body
RanTiers == last.op \in {"check", "manual"} /\ ~last.raised /\ last.errors = <<>>

\* the entries of the tenant of the latest call, before the call
TenantEntries ==
    {r \in {last.indexBefore[i] : i \in DOMAIN last.indexBefore} :
        r.firm_id = last.firm_id}

RecordIds(rows) == {r.record_id : r \in rows}

\* the entries the store's passport query selects, and those its Emirates ID
\* query selects
PassportHits ==
    {r \in TenantEntries :
        r.passport_numbers \cap VarcharArray(last.payload.passport_numbers) # {}}
EidHits ==
    {r \in TenantEntries :
        last.payload.emirates_id # NoText /\ r.emirates_id = last.payload.emirates_id}
ExactHits == PassportHits \cup EidHits

\* the similarity of an entry's name to the queried name, and the entries
\* that reach the floor of the fuzzy tier
NameRatio(r) ==
    SequenceMatcherRatio(Strip(LowerStr(last.payload.full_name)),
                         Strip(LowerStr(r.full_name)))
FuzzyHits ==
    {r \in TenantEntries :
        /\ Strip(LowerStr(last.payload.full_name)) # <<>>
        /\ Strip(LowerStr(r.full_name)) # <<>>
        /\ RatioAtLeast(NameRatio(r), FuzzyFloor)}
TableScore(r) ==
    StrongScore(NameRatio(r),
                {UpperStr(n) : n \in last.payload.nationality}
                    \cap {UpperStr(n) : n \in r.nationality} # {})

\* the entries that carry an embedding, and the similarity of the nearest
VectorEntries == {r \in TenantEntries : r.name_embedding # NullVec}
Similarity(r) == CosSim(r.name_embedding, last.embedding)

\* ───────────────────────── C1 ────────────────────────────────────────
\* C1: the tiers are applied in strict priority exact > fuzzy > semantic.
\* Whenever an entry of the tenant is an exact hit the result is an exact
\* match of such an entry, whatever the fuzzy tier would find; a fuzzy result
\* is given only when there is no exact hit, and whenever there is none but
\* some entry reaches the fuzzy floor; a semantic result is given only when
\* there is neither and an embedding was obtained.
C1_TierPriority ==
    RanTiers =>
        /\ ExactHits # {} =>
              /\ last.best.match_type = "exact"
              /\ last.best.matched_record_id \in RecordIds(ExactHits)
        /\ last.best.match_type = "exact" => ExactHits # {}
        /\ (ExactHits = {} /\ FuzzyHits # {}) =>
              /\ last.best.match_type = "strong"
              /\ last.best.matched_record_id \in RecordIds(FuzzyHits)
        /\ last.best.match_type = "strong" => (ExactHits = {} /\ FuzzyHits # {})
        /\ last.best.match_type = "soft" =>
              /\ ExactHits = {} /\ FuzzyHits = {}
              /\ last.embedding # NullVec

\* a check returned an exact match although the fuzzy tier, asked alone,
\* would have matched another party
C1_Witness ==
    /\ RanTiers /\ last.op = "check"
    /\ last.best.match_type = "exact"
    /\ LET fuzzy == Tier2Strong(last.payload, last.firm_id, last.indexBefore)
       IN  fuzzy.hit /\ fuzzy.matched_record_id # last.best.matched_record_id

\* ───────────────────────── C2 ────────────────────────────────────────
\* C2: whenever the passport numbers of the record intersect those of an
\* entry of the tenant, the result is exact with score 95 and an entry they
\* intersect; when they intersect none but the Emirates ID is that of an
\* entry of the tenant, the result is exact with score 90 and such an entry.
C2_ExactScores ==
    RanTiers =>
        LET shared == {r \in TenantEntries :
                         r.passport_numbers \cap last.payload.passport_numbers # {}}
        IN  /\ shared # {} =>
                  /\ last.best.match_type = "exact"
                  /\ last.best.confidence_score = 95
                  /\ last.best.matched_record_id \in RecordIds(shared)
            /\ (shared = {} /\ EidHits # {}) =>
                  /\ last.best.match_type = "exact"
                  /\ last.best.confidence_score = 90
                  /\ last.best.matched_record_id \in RecordIds(EidHits)

\* ───────────────────────── C3 ────────────────────────────────────────
\* C3: when the exact tier finds nothing, the fuzzy tier returns an entry of
\* the tenant whose table score is the maximum over all the entries that
\* reach the floor of 0.85, wherever that entry stands in the scan, and it
\* returns no match exactly when no entry reaches the floor.
C3_FuzzyMaximum ==
    (RanTiers /\ ExactHits = {}) =>
        IF FuzzyHits = {} THEN last.best.match_type # "strong"
        ELSE /\ last.best.match_type = "strong"
             /\ \E m \in FuzzyHits :
                   /\ m.record_id = last.best.matched_record_id
                   /\ TableScore(m) = last.best.confidence_score
             /\ \A r \in FuzzyHits : TableScore(r) <= last.best.confidence_score
             /\ last.best.confidence_score \in {82, 72, 65, 60}

\* the fuzzy tier returned an entry that scores higher than an entry above
\* the floor that was inserted, and is scanned, before it
C3_Witness ==
    /\ RanTiers /\ ExactHits = {}
    /\ last.best.match_type = "strong"
    /\ \E r \in FuzzyHits :
          /\ r.record_id < last.best.matched_record_id
          /\ TableScore(r) < last.best.confidence_score

\* ───────────────────────── C4 ────────────────────────────────────────
\* C4: when the first two tiers find nothing and an embedding was obtained,
\* the semantic tier returns the nearest entry of the tenant that carries an
\* embedding if its similarity is at least 0.85, scored 55, 45, 30 or 22 by
\* its band, and returns no match if the nearest is below 0.85; an entry that
\* is not the nearest is never returned.
C4_SemanticFirst ==
    (RanTiers /\ ExactHits = {} /\ FuzzyHits = {} /\ last.embedding # NullVec) =>
        IF \A r \in VectorEntries : Similarity(r) < SoftFloor
        THEN last.best = NoMatch
        ELSE /\ last.best.match_type = "soft"
             /\ \E m \in VectorEntries :
                   /\ m.record_id = last.best.matched_record_id
                   /\ \A r \in VectorEntries : Similarity(r) <= Similarity(m)
                   /\ last.best.confidence_score =
                        IF Similarity(m) >= 970 THEN 55
                        ELSE IF Similarity(m) >= 930 THEN 45
                        ELSE IF Similarity(m) >= 870 THEN 30
                        ELSE 22

\* the semantic tier returned the nearest of two entries above the floor,
\* the nearest being the later one in the table
C4_Witness ==
    /\ RanTiers /\ last.best.match_type = "soft"
    /\ \E r, m \in VectorEntries :
          /\ m.record_id = last.best.matched_record_id
          /\ r.record_id < m.record_id
          /\ Similarity(r) >= SoftFloor
          /\ Similarity(r) < Similarity(m)

\* ───────────────────────── C5 ────────────────────────────────────────
\* the client of the latest check had a status the check moves on from
Routable == last.statusBefore \in {"conflict_check", "id_uploaded"}

\* C5: when the embedding provider fails or the vector search fails, the
\* check does not raise, its result is decided by the exact and fuzzy tiers
\* (none with score 0 when neither matches), one ConflictResult is persisted
\* and the client's status is updated.
C5_DegradesGracefully ==
    (last.op = "check" /\ last.failed \in {"provider", "tier3"}) =>
        /\ ~last.raised
        /\ last.best.match_type \in {"exact", "strong", "none"}
        /\ (ExactHits = {} /\ FuzzyHits = {}) => last.best = NoMatch
        /\ Len(results) = Len(last.resultsBefore) + 1
        /\ Routable => clients[last.client_id].status # last.statusBefore

\* ───────────────────────── C6 ────────────────────────────────────────
\* C6: when the store fails in the exact lookup, in the fuzzy lookup or in
\* the write of the result, the check raises to its caller, no ConflictResult
\* is persisted and the client's status is what it was.
C6_StoreFailureRaises ==
    (last.op = "check" /\ last.failed \in {"tier1", "tier2", "write"}) =>
        /\ last.raised
        /\ ~last.committed
        /\ results = last.resultsBefore
        /\ index = last.indexBefore
        /\ clients[last.client_id].status = last.statusBefore

\* the write of the result failed for a client whose check had found a match
C6_Witness ==
    /\ last.op = "check" /\ last.failed = "write" /\ last.raised
    /\ ExactHits \cup FuzzyHits # {}
    /\ results = last.resultsBefore

\* ───────────────────────── C7 ────────────────────────────────────────
\* C7: when the upsert of the party index fails, in its overlap lookup, in
\* its UPDATE or INSERT or in its commit, the check does not raise (so the
\* task that runs it does not retry), and the ConflictResult and the status
\* it wrote stay committed.
C7_UpsertFailureSwallowed ==
    (last.op = "check"
        /\ last.failed \in {"upsert_lookup", "upsert_write", "upsert_commit"}) =>
        /\ ~last.raised
        /\ last.committed
        /\ Len(results) = Len(last.resultsBefore) + 1

TenantView ==
    LET OfFirm(r) == r.firm_id = last.firm_id
    IN  SelectSeq(last.indexBefore, OfFirm)

\* C9: tenant isolation.  The tier, score and matched record of a check are
\* one of the outcomes the tiers have on the tenant's own entries alone, so
\* that two index states with the same entries of the tenant allow the same
\* outcomes, an identifier or name held only by another tenant yields none
\* with score 0, and a matched record is always an entry of the tenant.
C9_TenantIsolation ==
    RanTiers =>
        /\ \E t \in ScanOrders(TenantView) :
              last.best =
                  IF last.op = "check"
                  THEN RunTiers(last.payload, last.firm_id, last.embedding,
                                t, "none").best
                  ELSE CheckManualTiers(last.payload, last.firm_id, t,
                                        last.failed).best
        /\ last.best.hit =>
              last.best.matched_record_id \in RecordIds(TenantEntries)
        /\ TenantEntries = {} => last.best = NoMatch

\* a client of one tenant was checked while another tenant's index held the
\* client's passport number, and the check found nothing
C9_Witness ==
    /\ RanTiers /\ last.op = "check"
    /\ last.best = NoMatch
    /\ \E i \in DOMAIN last.indexBefore :
          /\ last.indexBefore[i].firm_id # last.firm_id
          /\ last.indexBefore[i].passport_numbers
                \cap last.payload.passport_numbers # {}

\* ───────────────────────── C10 ───────────────────────────────────────
\* C10: each completed check appends exactly one ConflictResult, for the
\* client checked and with decision pending, and every ConflictResult has no
\* matched record if and only if its match type is none.
C10_OnePendingResult ==
    /\ (last.op = "check" /\ last.committed) =>
          /\ Len(results) = Len(last.resultsBefore) + 1
          /\ SubSeq(results, 1, Len(last.resultsBefore)) = last.resultsBefore
          /\ results[Len(results)].client_id = last.client_id
          /\ results[Len(results)].decision = "pending"
          /\ results[Len(results)].match_type = last.best.match_type
          /\ results[Len(results)].matched_record_id = last.best.matched_record_id
    /\ \A i \in DOMAIN results :
          results[i].matched_record_id = NoRow <=> results[i].match_type = "none"

\* a check that found a match appended its result, which names the entry
C10_Witness ==
    /\ last.op = "check" /\ last.committed
    /\ Len(results) = Len(last.resultsBefore) + 1
    /\ results[Len(results)].match_type # "none"
    /\ results[Len(results)].matched_record_id # NoRow

\* ───────────────────────── C11 ───────────────────────────────────────
\* the columns of a result that its creation fixes
CreatedColumns(row) ==
    <<row.conflict_id, row.client_id, row.match_type, row.matched_record_id,
      row.confidence_score, row.created_at>>

\* C11: once a ConflictResult exists no operation, be it a later check, the
\* upsert of the index or a decision, changes its match_type,
\* matched_record_id, confidence_score or created_at or removes it; and a
\* decision changes nothing of the results but decision, decision_reason,
\* reviewed_by and decision_at of the one result it names.
C11_ResultsImmutable ==
    [][ /\ \A i \in DOMAIN results :
              /\ i \in DOMAIN results'
              /\ CreatedColumns(results'[i]) = CreatedColumns(results[i])
        /\ last'.op = "decide" =>
              /\ DOMAIN results' = DOMAIN results
              /\ \A i \in DOMAIN results :
                    results'[i].conflict_id # last'.conflict_id =>
                        results'[i] = results[i]
      ]_vars

\* an admin approved a result that names an entry of the index, after a later
\* check of the same client had run and had updated that entry
C11_Witness ==
    /\ last.op = "decide" /\ last.committed
    /\ Len(results) = 2
    /\ results[1].client_id = results[2].client_id
    /\ \E i \in DOMAIN results :
          /\ results[i].conflict_id = last.conflict_id
          /\ results[i].decision = "approved"
          /\ results[i].matched_record_id # NoRow
          /\ results[i].decision_at > results[i].created_at

\* ───────────────────────── C12 ───────────────────────────────────────
\* the columns of a result that a decision writes
DecisionColumns(row) ==
    <<row.decision, row.decision_reason, row.reviewed_by, row.decision_at>>

\* C12: the decision of a result leaves pending at most once.  After a call
\* of decide_conflict, every result that was approved or rejected before the
\* call has the decision, reason, reviewer and decision time it had, and no
\* result that was decided is pending.
C12_DecidedOnce ==
    (last.op = "decide") =>
        \A i \in DOMAIN last.resultsBefore :
            last.resultsBefore[i].decision # "pending" =>
                /\ DecisionColumns(results[i])
                     = DecisionColumns(last.resultsBefore[i])
                /\ results[i].decision # "pending"

\* ───────────────────────── C13 ───────────────────────────────────────
\* C13: a check of the same client again, with the client's identity data
\* unchanged, has no effect beyond one more ConflictResult.  In the state a
\* completed check leaves, a further run for that client returns the match
\* type, the score and the matched record the check returned and leaves the
\* client's status as the check left it.
C13_RerunSameResult ==
    (last.op = "check" /\ last.committed /\ ~last.raised /\ last.failed = "none") =>
        \A tbl \in ScanOrders(index) :
            /\ CheckOutcome(last.client_id, tbl, "none").best = last.best
            /\ CheckOutcome(last.client_id, tbl, "none").status
                 = clients[last.client_id].status

\* ───────────────────────── C14 ───────────────────────────────────────
\* the vector the semantic tier is asked with for the name of the latest call
QueryVec == Embed(last.payload.full_name)

\* the orders in which the store may return the index of the latest call
Scans == ScanOrders(last.indexBefore)

\* no two entries compete for the result of a tier: at most one entry shares a
\* passport number (and, if none does, at most one has the Emirates ID), at
\* most one entry has the highest fuzzy score, at most one is nearest
UntiedExact ==
    /\ Cardinality(PassportHits) <= 1
    /\ PassportHits = {} => Cardinality(EidHits) <= 1
UntiedFuzzy ==
    Cardinality({r \in FuzzyHits :
                    \A q \in FuzzyHits : TableScore(q) <= TableScore(r)}) <= 1
UntiedSemantic ==
    Cardinality({r \in VectorEntries :
                    \A q \in VectorEntries :
                        CosSim(q.name_embedding, QueryVec)
                            <= CosSim(r.name_embedding, QueryVec)}) <= 1

SameTierAndScore(a, b) ==
    a.match_type = b.match_type /\ a.confidence_score = b.confidence_score

\* C14, as stated: each tier function, called twice with the same inputs on an
\* index that did not change, gives the same tier, score and matched record,
\* also when several entries tie.
C14_SameRecordOnTies ==
    RanTiers =>
        \A t1, t2 \in Scans :
            /\ Tier1Exact(last.payload, last.firm_id, t1)
                 = Tier1Exact(last.payload, last.firm_id, t2)
            /\ Tier2Strong(last.payload, last.firm_id, t1)
                 = Tier2Strong(last.payload, last.firm_id, t2)
            /\ Tier3Soft(QueryVec, last.firm_id, t1)
                 = Tier3Soft(QueryVec, last.firm_id, t2)

\* C14, amended: each tier function, called twice with the same inputs on an
\* index that did not change, gives the same tier and the same score; it gives
\* the same matched record too when no two entries tie for the tier's result,
\* and on a tie the record depends on the order in which the store returns
\* the rows.
C14_SameTierAndScore ==
    RanTiers =>
        \A t1 \in {last.indexBefore}, t2 \in Scans :
            /\ SameTierAndScore(Tier1Exact(last.payload, last.firm_id, t1),
                                Tier1Exact(last.payload, last.firm_id, t2))
            /\ SameTierAndScore(Tier2Strong(last.payload, last.firm_id, t1),
                                Tier2Strong(last.payload, last.firm_id, t2))
            /\ SameTierAndScore(Tier3Soft(QueryVec, last.firm_id, t1),
                                Tier3Soft(QueryVec, last.firm_id, t2))
            /\ UntiedExact =>
                  Tier1Exact(last.payload, last.firm_id, t1)
                    = Tier1Exact(last.payload, last.firm_id, t2)
            /\ UntiedFuzzy =>
                  Tier2Strong(last.payload, last.firm_id, t1)
                    = Tier2Strong(last.payload, last.firm_id, t2)
            /\ UntiedSemantic =>
                  Tier3Soft(QueryVec, last.firm_id, t1)
                    = Tier3Soft(QueryVec, last.firm_id, t2)

\* two entries of the tenant have the same, highest fuzzy score for the name
\* asked, and the fuzzy tier names the one or the other by the scan order
C14_Witness ==
    /\ RanTiers /\ ~UntiedFuzzy
    /\ \E t1, t2 \in Scans :
          /\ Tier2Strong(last.payload, last.firm_id, t1).hit
          /\ Tier2Strong(last.payload, last.firm_id, t1).matched_record_id
               # Tier2Strong(last.payload, last.firm_id, t2).matched_record_id
          /\ SameTierAndScore(Tier2Strong(last.payload, last.firm_id, t1),
                              Tier2Strong(last.payload, last.firm_id, t2))

\* ───────────────────────── C15 ───────────────────────────────────────
\* C15: in a check that has committed its result, the upsert of the party
\* index goes past its guards if and only if an embedding was obtained and
\* the payload has at least one passport number and a name; and a check whose
\* upsert did not, for want of any of the three or because the check raised
\* before it, leaves the index as it was.
C15_UpsertGuard ==
    /\ (last.op = "check" /\ last.committed) =>
          (last.upserted <=> /\ last.embedding # NullVec
                             /\ last.payload.passport_numbers # {}
                             /\ last.payload.full_name # NoText)
    /\ (last.op = "check" /\ ~last.upserted) => index = last.indexBefore

\* the provider failed in the check of a client whose passport number an
\* entry of the tenant holds: the entry, which the upsert would have
\* rewritten, is as it was
C15_Witness ==
    /\ last.op = "check" /\ last.committed /\ last.failed = "provider"
    /\ ~last.upserted
    /\ \E r \in PassportHits : r.full_name # last.payload.full_name
    /\ index = last.indexBefore

\* ───────────────────────── C16 ───────────────────────────────────────
\* the entries of the latest call's tenant that have a passport number in
\* common with the payload, before the call and after it
SharingBefore ==
    {r \in TenantEntries :
        r.passport_numbers \cap last.payload.passport_numbers # {}}
SharingAfter ==
    {r \in {index[i] : i \in DOMAIN index} :
        /\ r.firm_id = last.firm_id
        /\ r.passport_numbers \cap last.payload.passport_numbers # {}}

\* C16: when checks run one after the other, the upsert inserts an entry only
\* when no entry of the tenant has a passport number in common with the
\* payload, and the new entry then is the only one; otherwise it rewrites the
\* name, embedding and nationality of exactly one of the entries that have,
\* leaves every other entry as it was and adds none, so that the entries
\* holding the passport number do not multiply whatever name was checked.
C16_UpsertByPassport ==
    (last.op = "check" /\ last.upserted /\ last.failed = "none") =>
        /\ SharingBefore = {} =>
              /\ Len(index) = Len(last.indexBefore) + 1
              /\ SubSeq(index, 1, Len(last.indexBefore)) = last.indexBefore
              /\ index[Len(index)].firm_id = last.firm_id
              /\ index[Len(index)].passport_numbers = last.payload.passport_numbers
              /\ index[Len(index)].full_name = last.payload.full_name
              /\ Cardinality(SharingAfter) = 1
        /\ SharingBefore # {} =>
              /\ Len(index) = Len(last.indexBefore)
              /\ \E k \in DOMAIN index :
                    /\ last.indexBefore[k] \in SharingBefore
                    /\ index[k] = [last.indexBefore[k] EXCEPT
                                     !.full_name      = last.payload.full_name,
                                     !.name_embedding = last.embedding,
                                     !.nationality    = last.payload.nationality]
                    /\ \A j \in DOMAIN index \ {k} : index[j] = last.indexBefore[j]
              /\ Cardinality(SharingAfter) = Cardinality(SharingBefore)

\* a client was checked whose passport number an entry of the tenant held
\* under another name: the entry now has the client's name and the index has
\* no more entries than before
C16_Witness ==
    /\ last.op = "check" /\ last.upserted /\ last.failed = "none"
    /\ \E k \in DOMAIN last.indexBefore :
          /\ last.indexBefore[k] \in SharingBefore
          /\ last.indexBefore[k].full_name # last.payload.full_name
          /\ index[k].full_name = last.payload.full_name
    /\ Len(index) = Len(last.indexBefore)

\* ───────────────────────── C17 ───────────────────────────────────────
\* C17: when two checks of the same client run at the same time and their
\* upserts interleave, each doing its overlap lookup before the other has
\* written, the index still has at most one entry of the tenant that holds
\* the client's passport numbers: no two entries of one tenant, written by
\* the upsert, have a passport number in common.
C17_NoDuplicateEntries ==
    \A i, j \in DOMAIN index :
        (i # j /\ index[i].firm_id = index[j].firm_id) =>
            index[i].passport_numbers \cap index[j].passport_numbers = {}

\* ───────────────────────── C18 ───────────────────────────────────────
\* C18: the callers allow one check of a client at a time.  Whatever
\* triggers queued them (the OCR task of each of the client's documents, the
\* edit of the profile name, the admin's /check route, a retry), no two
\* worker processes are ever running run_conflict_check for the same client.
C18_OneInFlightPerClient ==
    \A w1, w2 \in Workers :
        (w1 # w2 /\ running[w1] # Free /\ running[w2] # Free) =>
            running[w1].client_id # running[w2].client_id

\* ───────────────────────── C19 ───────────────────────────────────────
\* C19: a call of run_conflict_check with the id of no client raises (the
\* ValueError "Client ... not found.") and changes nothing: no ConflictResult
\* is written, no client's status changes and the index is what it was.
C19_NotFoundNoEffect ==
    [][ (last'.op = "check" /\ last'.client_id \notin ClientIds) =>
            /\ last'.raised /\ ~last'.committed
            /\ results' = results
            /\ clients' = clients
            /\ index' = index
      ]_vars

\* the check was asked for an id that no client has, while the index held
\* entries and a client had been moved on by hand
C19_Witness ==
    /\ last.op = "check" /\ last.client_id = GhostClient /\ last.raised
    /\ index # <<>> /\ index = last.indexBefore
    /\ results = last.resultsBefore
    /\ \E c \in ClientIds : clients[c].status = "approved"

\* ───────────────────────── C20 ───────────────────────────────────────
\* lines 128-134: what the run returns, but for the fresh conflict_id
Summary(out) ==
    [ match_type        |-> out.best.match_type,
      confidence_score  |-> out.best.confidence_score,
      decision          |-> "pending",
      matched_record_id |-> out.best.matched_record_id ]

\* C20: a check whose semantic tier was skipped because the provider failed
\* cannot be told, by what it returns and by the status it leaves, from the
\* check of the same client on the same index whose embedding was obtained
\* and in which no tier matched: both return none, score 0, no record and
\* pending, neither raises, and both leave the client the same status.
C20_DegradedIndistinguishable ==
    \A c \in ClientIds, tbl \in ScanOrders(index) :
        LET degraded == CheckOutcome(c, tbl, "provider")
            served   == CheckOutcome(c, tbl, "none")
        IN  (/\ degraded.failed = "provider"
             /\ served.embedding # NullVec /\ ~served.best.hit) =>
                /\ ~degraded.raised /\ ~served.raised
                /\ Summary(degraded) = Summary(served)
                /\ Summary(degraded) =
                     [ match_type |-> "none", confidence_score |-> 0,
                       decision |-> "pending", matched_record_id |-> NoRow ]
                /\ degraded.status = served.status

\* the provider failed in the check of a client for whom no tier matches:
\* the tenant's index held entries with embeddings, none of which the
\* semantic tier, had it been asked, would have found near enough
C20_Witness ==
    /\ last.op = "check" /\ last.committed /\ last.failed = "provider"
    /\ last.best = NoMatch
    /\ VectorEntries # {}
    /\ \A r \in VectorEntries : CosSim(r.name_embedding, QueryVec) < SoftFloor
    /\ RunTiers(last.payload, last.firm_id, QueryVec, last.indexBefore,
                "none").best = NoMatch
    /\ clients[last.client_id].status = StatusAfter(last.statusBefore, 0)

\* ───────────────────────── C21 ───────────────────────────────────────
\* the priority of a tier: exact before strong before soft before none
TierRank(match_type) ==
    CASE match_type = "exact"  -> 3
      [] match_type = "strong" -> 2
      [] match_type = "soft"   -> 1
      [] OTHER                 -> 0

\* the scores that a result of the tier may carry
ScoreBand(match_type) ==
    CASE match_type = "exact"  -> {90, 95}
      [] match_type = "strong" -> 60..85
      [] match_type = "soft"   -> 20..59
      [] OTHER                 -> {0}

\* the score tables of the fuzzy and of the semantic tier stay in their bands
\* for every ratio of two names and every similarity from the floor up
TablesInBands ==
    /\ \A a \in NameKeys, b \in NameKeys, nat_overlap \in BOOLEAN :
          ScoreOfRatio(RatioTable[a, b], nat_overlap) \in {0} \cup ScoreBand("strong")
    /\ \A sim \in SoftFloor..1000 : SoftScore(sim) \in ScoreBand("soft")

\* C21: every ConflictResult in the store has a score in 0..100 that lies in
\* the band of its tier (exact 90 or 95, strong 60..85, soft 20..59, none 0),
\* and of two results the one of the tier of higher priority has the strictly
\* higher score; the score tables of the tiers leave their bands for no input.
C21_ScoreBands ==
    /\ TablesInBands
    /\ \A i \in DOMAIN results :
           /\ results[i].match_type \in MatchType
           /\ results[i].confidence_score \in 0..100
           /\ results[i].confidence_score \in ScoreBand(results[i].match_type)
           /\ \A j \in DOMAIN results :
                 TierRank(results[i].match_type) > TierRank(results[j].match_type)
                     => results[i].confidence_score > results[j].confidence_score

\* the store holds a soft result and an exact result
C21_Witness ==
    \E i \in DOMAIN results, j \in DOMAIN results :
        /\ results[i].match_type = "soft" /\ results[i].confidence_score = 45
        /\ results[j].match_type = "exact" /\ results[j].confidence_score = 95

\* ───────────────────────── C22 ───────────────────────────────────────
\* the entries of the tenant that hold the Emirates ID of the latest call's
\* payload, the two compared in canonical form
SameEidCanonical ==
    {r \in TenantEntries :
        /\ last.payload.emirates_id # NoText
        /\ r.emirates_id = CleanId(last.payload.emirates_id)}

\* the entries of the tenant that hold a passport number of the latest call's
\* payload, the two compared in canonical form
SamePassportCanonical ==
    {r \in TenantEntries :
        r.passport_numbers
            \cap {CleanId(p) : p \in last.payload.passport_numbers} # {}}

\* C22: the identifiers of the payload that a check gives to the exact tier
\* are in canonical form (no whitespace, no hyphen, upper case), the form in
\* which the import stores them; so whenever an entry of the tenant holds the
\* client's passport number or Emirates ID, the check gives an exact match.
C22_CanonicalIdentifiers ==
    (last.op = "check" /\ RanTiers) =>
        /\ \A p \in last.payload.passport_numbers : p = CleanId(p)
        /\ last.payload.emirates_id = CleanId(last.payload.emirates_id)
        /\ (SamePassportCanonical \cup SameEidCanonical # {}) =>
              last.best.match_type = "exact"

\* ───────────────────────── C23 ───────────────────────────────────────
\* C23: validate_payload, given raw fields, returns a list with a problem
\* whenever the name is empty after cleaning, a name of whitespace only
\* included, and the empty list whenever the cleaned name is not empty (the
\* bodies posted have list-typed passport numbers and nationalities); and
\* check_manual runs no tier when the list has a problem.
C23_BlankNameRefused ==
    /\ last.op = "validate" =>
          (last.errors # <<>>) = (CleanName(last.payload.full_name) = <<>>)
    /\ (last.op = "manual" /\ last.errors # <<>>) =>
          /\ last.best = NoMatch
          /\ last.embedding = NullVec
          /\ last.failed = "none"

\* ───────────────────────── C24 ───────────────────────────────────────
\* C24: the payload that normalise_manual_input makes of a body has no empty
\* string among its passport numbers nor among its nationalities: an entry
\* that is empty, or that cleaning leaves empty, is dropped.  (An Emirates ID
\* that cleaning leaves empty is the empty text, which the model does not
\* tell from an absent one.)
C24_NoEmptyEntries ==
    last.op = "manual" =>
        /\ NoText \notin last.payload.passport_numbers
        /\ NoText \notin last.payload.nationality

\* ───────────────────────── C25 ───────────────────────────────────────
\* the attempt that a queued or running task is: 1 for the dispatch, one more
\* for every retry
Attempts ==
    {queue[i].retries + 1 : i \in DOMAIN queue}
        \cup {running[w].retries + 1 : w \in InFlight}

\* C25: a dispatched task invokes the engine at most 3 times, one attempt and
\* MaxRetries retries, whatever fails: no task is ever queued for a fourth
\* attempt, a run queues its task again only when the engine raised, and a
\* run in which the notification or the e-mail failed queues nothing.
C25_BoundedAttempts ==
    /\ \A a \in Attempts : a <= MaxRetries + 1
    /\ last.op = "task" =>
          /\ last.queued = 1 => last.raised
          /\ last.failed \in {"notify", "email"} =>
                /\ last.queued = 0
                /\ last.committed /\ ~last.raised

\* the third run of a task raised as the two before it had, and the task is
\* not queued again
C25_Witness ==
    /\ last.op = "task" /\ last.raised /\ last.queued = 0
    /\ queue = <<>>

\* ───────────────────────── C26 ───────────────────────────────────────
\* what the exact tier gives, on the index as it is now, to a candidate of
\* the latest call's tenant who has this passport number and nothing else
ExactLookup(passport_number) ==
    Tier1Exact([ full_name |-> NoText, passport_numbers |-> {passport_number},
                 emirates_id |-> NoText, nationality |-> {} ],
               last.firm_id, index)

\* C26: after a successful upsert for a candidate with the passport numbers S,
\* the exact tier finds a match for every candidate of the tenant who has a
\* number of S, also when the upsert updated an entry that had only some of
\* the numbers of S.
C26_UpsertedNumbersFound ==
    (last.op = "task" /\ last.upserted /\ ~last.raised /\ last.failed = "none") =>
        \A p \in last.payload.passport_numbers : ExactLookup(p).hit

\* ───────────────────────── C27 ───────────────────────────────────────
\* C27: once a client has gone on from the upload step and the OCR tasks of
\* the client's passports have ended, a check is queued for the client, also
\* when OCR read no number on a passport.  The check is queued by the OCR
\* task as it ends and by nothing else that runs by itself: when the OCR task
\* of the only passport of a client in conflict_check has ended, it has
\* queued a check.
C27_CheckQueuedAfterOcr ==
    ( /\ last.op = "ocr"
      /\ clients[last.client_id].status = "conflict_check"
      /\ Len(clients[last.client_id].passports) = 1 ) =>
        last.queued = 1

\* ───────────────────────── C28 ───────────────────────────────────────
\* C28: the admin case-detail and client-list views show for each client the
\* ConflictResult created last: after any sequence of checks, the score and
\* the match type they report are those of the result that
\* GET /api/conflict/result returns.
C28_ViewsShowLatest ==
    \A c \in ClientIds :
        \A v \in CaseDetailConflict(c), g \in GetResult(c) :
            /\ results[v].confidence_score = results[g].confidence_score
            /\ results[v].match_type = results[g].match_type

\* ───────────────────────── C29 ───────────────────────────────────────
\* C29: a WhatsApp client held in conflict_pending because the check scored
\* 50 or more leaves conflict_pending once an admin has resolved the conflict
\* with decide_conflict.  Nothing runs by itself when no task is queued or
\* running: in such a state a WhatsApp client whose result of 50 or more was
\* approved is not in conflict_pending.
Quiet == queue = <<>> /\ \A w \in Workers : running[w] = Free
C29_ResolvedLeavesPending ==
    \A c \in ClientIds :
        ( /\ Quiet
          /\ clients[c].channel = "whatsapp"
          /\ \E i \in ResultsOf(c) :
                /\ results[i].confidence_score >= REVIEW_THRESHOLD
                /\ results[i].decision = "approved" ) =>
            clients[c].whatsapp_state # "conflict_pending"

\* ───────────────────────── C30 ───────────────────────────────────────
\* C30: once a review decision has set a client's status to approved or
\* rejected, no later conflict check of that client changes the client's
\* status.
C30_DecidedStatusKept ==
    ( /\ last.op = "check"
      /\ last.committed
      /\ last.statusBefore \in {"approved", "rejected"}
      /\ \E i \in 1..Len(last.resultsBefore) :
            /\ last.resultsBefore[i].client_id = last.client_id
            /\ last.resultsBefore[i].decision = last.statusBefore ) =>
        clients[last.client_id].status = last.statusBefore

====
